---- MODULE Spec2Model ----
(***************************************************************************)
(* The planning / execution engine of StockAI as a state machine.          *)
(*                                                                         *)
(* One behaviour is one graph.invoke(...) of the LangGraph workflow built  *)
(* by create_graph (src/stockai/agent.py): coordinator_node -> planner ->  *)
(* capability node -> planner -> ... -> summary -> END.  The language      *)
(* model ("oracle") and the capability functions are the environment:      *)
(* their results are chosen with \E from the bounded sets below.           *)
(*                                                                         *)
(* Texts are sequences of string tokens, so that an f-string is a          *)
(* concatenation (\o) and the empty text is << >>.  The Chinese literals   *)
(* of the source are written in ASCII; each is named where it is defined.  *)
(* Plan indices are 0-based in the source and in current_step_index; the   *)
(* plan itself is a TLA+ sequence, so source plan[i] is plan[i + 1] here.  *)
(***************************************************************************)
EXTENDS Integers, Sequences, FiniteSets, TLC

VARIABLES
    pc,                  \* the graph node that runs next, "END", or "ERROR"
    plan,                \* state["plan"]: the list of PlanStep
    current_step_index,  \* state["current_step_index"]
    errors_in_state,     \* whether the caller put an "errors" key in the state
    errors,              \* the list under state["errors"] (when present)
    session_id,          \* state["session_id"] ("" when absent)
    task_results,        \* rows of the task_results table
    last_message,        \* the last message appended to state["messages"]
    pass_to_planner,     \* the coordinator's decision ("unset" before it ran)
    decision,            \* the value the planner's last oracle call produced
    prompt_done,         \* the steps up to the cursor, as the last replan prompt showed them
    node_outcome,        \* what execute_func did in the last harness run
    calls,               \* how often each component has been entered
    executed,            \* the cursor values the harness has run, in order
    initial_len,         \* len(plan) stored by the initial planning
    first_replan_len,    \* the plan length the first replan's answer asked for
    late_change,         \* a replan after the first returned updated_steps
    saves,               \* the save_task_result calls made on the table directly
    direct_output        \* the value handed to _extract_result_from_output directly

vars == << pc, plan, current_step_index, errors_in_state, errors, session_id,
           task_results, last_message, pass_to_planner, decision, prompt_done,
           node_outcome, calls, executed, initial_len, first_replan_len,
           late_change, saves, direct_output >>

-----------------------------------------------------------------------------
(* Bounds of the model *)

\* the longest list of steps the first planning may return
MaxInitialLen == 2

\* the longest plan a replan may ask for (steps kept plus updated_steps)
MaxPlanLen == 3

-----------------------------------------------------------------------------
(* Values *)

None == << "<None>" >>
EmptyText == << >>

Falsy(x) == x = None \/ x = EmptyText

\* Python's  a or b
Or(a, b) == IF Falsy(a) THEN b ELSE a

Statuses == { "pending", "running", "completed", "failed" }
Terminal == { "completed", "failed" }

\* the five capability nodes create_graph registers and wires back to planner
Catalog == { "trend_analyze", "market_news", "get_proper_concept",
             "analyze_leading_stocks", "analyze_stocks_similiarity" }

GraphNodes == Catalog \cup { "coordinator_node", "planner", "summary", "router" }

PlanStep(id, description, target_node, inputs, result, status) ==
    [ id |-> id, description |-> description, target_node |-> target_node,
      inputs |-> inputs, result |-> result, status |-> status ]

\* The PlanStep objects the oracle's structured output may contain.  Every
\* field is a free str (status a free Literal) in the schema, so the oracle
\* may repeat an id, echo a result text (as the replan prompt's examples do),
\* emit a status other than pending (completed, running), or name a node the
\* graph does not have.
OracleSteps ==
    { PlanStep("step1", << "d1" >>, "trend_analyze", << "i1" >>, EmptyText, "pending"),
      PlanStep("step2", << "d2" >>, "market_news", << "i2" >>,
               << "result from node llm" >>, "pending"),
      PlanStep("step2", << "d3" >>, "get_proper_concept", << "i3" >>, EmptyText, "completed"),
      PlanStep("step3", << "d4" >>, "analyze_reason", << "i4" >>, EmptyText, "running") }

\* the reasoning texts of the first planning and of a replan
Reasonings == { << "out of scope" >>, << "because" >> }
ReplanReasonings == { << "no change needed" >> }

RECURSIVE SeqsUpTo(_, _)
SeqsUpTo(S, n) ==
    IF n <= 0 THEN { << >> }
    ELSE LET shorter == SeqsUpTo(S, n - 1)
         IN  shorter \cup { Append(s, x) : s \in { t \in shorter : Len(t) = n - 1 }, x \in S }

AIMessage(content) == [ type |-> "ai", content |-> content ]
HumanMessage(content) == [ type |-> "human", content |-> content ]
NoMessage == [ type |-> "none", content |-> EmptyText ]

\* What a capability function (execute_func) may return: the repository's
\* nodes all return format_messages_for_state(result['messages']), a dict
\* with a "messages" list.
DictOutput(messages) == [ shape |-> "dict", messages |-> messages ]

NodeOutputs ==
    { DictOutput(<< HumanMessage(<< "q" >>), AIMessage(<< "up 3%" >>) >>),
      DictOutput(<< >>) }

\* str(e) of the exceptions a capability function may raise
ErrorMessages == { << "timeout" >> }

SessionIds == { "", "sess1" }

-----------------------------------------------------------------------------
(* src/stockai/utils.py *)

\* The 1-based position of the current step when it belongs to target_node,
\* 0 for the source's None.
GetCurrentStep(p, idx, target_node) ==
    IF p # << >> /\ idx < Len(p) /\ p[idx + 1].target_node = target_node
    THEN idx + 1
    ELSE 0

\* mutant: every step of the plan that belongs to target_node is updated
UpdateStepStatus_everyMatch(p, idx, target_node, status, result) ==
    [ k \in 1..Len(p) |->
        IF p[k].target_node = target_node
        THEN [ p[k] EXCEPT !.status = status,
                           !.result = IF result # EmptyText THEN result ELSE @ ]
        ELSE p[k] ]

\* The plan after _update_step_status: the step objects are shared with the
\* state's list, so the mutation is visible to every later node.
UpdateStepStatus(p, idx, target_node, status, result) ==
    LET k == GetCurrentStep(p, idx, target_node)
    IN  IF k = 0 THEN p
        ELSE [ p EXCEPT ![k] = [ @ EXCEPT !.status = status,
                                          !.result = IF result # EmptyText
                                                     THEN result ELSE @ ] ]

\* "generated N messages" (source: f"生成了{len(messages)}条消息")
NumStr(n) == CASE n = 0 -> "0" [] n = 1 -> "1" [] n = 2 -> "2" [] n = 3 -> "3"
               [] n = 4 -> "4" [] OTHER -> "many"

RECURSIVE LastAIContent(_, _)
LastAIContent(messages, k) ==
    IF k = 0 THEN None
    ELSE IF messages[k].type = "ai" /\ messages[k].content # EmptyText
         THEN messages[k].content
         ELSE LastAIContent(messages, k - 1)

\* mutant: no summary text when no assistant turn has content
ExtractResultFromMessages_noFallback(messages) ==
    IF messages = << >> THEN EmptyText
    ELSE LET found == LastAIContent(messages, Len(messages))
         IN  IF found # None THEN found ELSE EmptyText

ExtractResultFromMessages(messages) ==
    IF messages = << >> THEN EmptyText
    ELSE LET found == LastAIContent(messages, Len(messages))
         IN  IF found # None THEN found
             ELSE << "generated ", NumStr(Len(messages)), " messages" >>

\* " | ".join(f"{k}: {v}" for k, v in data_dict.items() if v is not None and v != "")
\* over the fields from position k on; a field is << key, value >>
RECURSIVE JoinFields(_, _)
JoinFields(fields, k) ==
    IF k > Len(fields) THEN EmptyText
    ELSE LET rest == JoinFields(fields, k + 1)
             v == fields[k][2]
         IN  IF v = None \/ v = EmptyText THEN rest
             ELSE << fields[k][1], ": " >> \o v
                    \o (IF rest = EmptyText THEN EmptyText ELSE << " | " >> \o rest)

\* the readable text of a BaseModel; model_dump() may raise, which is caught
\* (source: f"结构化数据解析失败: {str(e)}")
StructuredContent(structured) ==
    IF structured.dump = "raises"
    THEN << "structured data parse failed: " >> \o structured.error
    ELSE JoinFields(structured.fields, 1)

\* << standard messages, result text >> of a capability function's output
ExtractResultFromOutput(output) ==
    CASE output.shape = "hybrid" ->
            LET std_messages == Append(output.messages,
                                       AIMessage(StructuredContent(output.structured)))
            IN  << std_messages, ExtractResultFromMessages(std_messages) >>
      [] output.shape = "dict" ->
            << output.messages, ExtractResultFromMessages(output.messages) >>
      [] output.shape = "ai" ->
            << << AIMessage(output.content) >>, output.content >>
      [] output.shape = "model" ->
            LET content == StructuredContent(output.structured)
            IN  << << AIMessage(content) >>, content >>
      [] output.shape = "none" ->
            << << AIMessage(EmptyText) >>, EmptyText >>
      [] OTHER ->
            << << AIMessage(output.text) >>, output.text >>

\* "execution failed: " (source: f"执行失败: {str(e)}")
ExecFailedPrefix == << "execution failed: " >>

ErrorMsg(e) == ExecFailedPrefix \o e

\* the entry appended to errors (source: f"{target_node}节点执行失败: {str(e)}")
ErrorEntry(target_node, e) == << target_node, " node failed: " >> \o e

-----------------------------------------------------------------------------
(* src/stockai/session_manager.py *)

RECURSIVE FirstMatch(_, _, _, _)
FirstMatch(rows, sid, step_id, k) ==
    IF k > Len(rows) THEN 0
    ELSE IF rows[k].session_id = sid /\ rows[k].step_id = step_id THEN k
         ELSE FirstMatch(rows, sid, step_id, k + 1)

\* mutant: no lookup of an existing record, every call inserts
SaveTaskResult_alwaysInsert(rows, sid, step_id, step_description, target_node, result, status, error_message) ==
    Append(rows, [ session_id |-> sid, step_id |-> step_id,
                   step_description |-> step_description,
                   target_node |-> target_node, result |-> result,
                   status |-> status, error_message |-> error_message ])

\* SessionManager.save_task_result with a successful commit
SaveTaskResult(rows, sid, step_id, step_description, target_node, result, status, error_message) ==
    LET k == FirstMatch(rows, sid, step_id, 1)
    IN  IF k # 0
        THEN [ rows EXCEPT ![k] =
                 [ @ EXCEPT !.step_description = Or(step_description, @),
                            !.target_node = IF target_node = "" THEN @ ELSE target_node,
                            !.result = Or(result, @),
                            !.status = status,
                            !.error_message = Or(error_message, @) ] ]
        ELSE Append(rows, [ session_id |-> sid, step_id |-> step_id,
                            step_description |-> step_description,
                            target_node |-> target_node, result |-> result,
                            status |-> status, error_message |-> error_message ])

\* the harness's "if session_id: ... if current_step: save_task_result(...)"
AuditStep(rows, sid, p, idx, target_node, result, status, error_message) ==
    LET k == GetCurrentStep(p, idx, target_node)
    IN  IF sid = "" \/ k = 0 THEN rows
        ELSE SaveTaskResult(rows, sid, p[k].id, p[k].description, target_node,
                            result, status, error_message)

-----------------------------------------------------------------------------
(* The graph: src/stockai/agent.py, create_graph *)

\* the static edge leaving a node ("" when it has none)
StaticEdge(node) ==
    IF node = "coordinator_node" \/ node \in Catalog THEN "planner" ELSE ""

\* The nodes that may run after `node` returned Command(goto = goto) (or a
\* plain update, goto = "").  A static edge is followed whatever the Command
\* says; a goto naming no node of the graph is dropped or rejected by the
\* graph library, depending on its version.
NextNodes(node, goto) ==
    IF StaticEdge(node) # "" THEN { StaticEdge(node) }
    ELSE IF goto \in GraphNodes \cup { "END" } THEN { goto }
    ELSE { "END", "ERROR" }

NoDecision == [ kind |-> "none", steps |-> << >>, reasoning |-> EmptyText ]
NoOutcome == [ kind |-> "none", text |-> EmptyText ]

\* _extract_result_from_output has not been called by itself
NotCalled == [ shape |-> "not called" ]

Bump(c, what) == [ c EXCEPT ![what] = @ + 1 ]

Init ==
    /\ pc = "coordinator_node"
    /\ plan = << >>
    /\ current_step_index = 0
    /\ errors_in_state \in BOOLEAN
    /\ errors = << >>
    /\ session_id \in SessionIds
    /\ task_results = << >>
    /\ last_message = NoMessage
    /\ pass_to_planner = "unset"
    /\ decision = NoDecision
    /\ prompt_done = << >>
    /\ node_outcome = NoOutcome
    /\ calls = [ planner |-> 0, plan_oracle |-> 0, replan_oracle |-> 0,
                 harness |-> 0, execute_func |-> 0, summary |-> 0 ]
    /\ executed = << >>
    /\ initial_len = 0
    /\ first_replan_len = 0
    /\ late_change = FALSE
    /\ saves = << >>
    /\ direct_output = NotCalled

-----------------------------------------------------------------------------
(* coordinator_node *)

CoordinatorGoto(pass) == IF pass THEN "planner" ELSE "END"

Coordinator ==
    /\ pc = "coordinator_node"
    /\ \E pass \in BOOLEAN :
          /\ pass_to_planner' = pass
          /\ pc' \in NextNodes("coordinator_node", CoordinatorGoto(pass))
    /\ last_message' = AIMessage(<< "coordinator answer" >>)
    /\ UNCHANGED << saves, direct_output >>
    /\ UNCHANGED << plan, current_step_index, errors_in_state, errors, session_id,
                    task_results, decision, prompt_done, node_outcome, calls,
                    executed, initial_len, first_replan_len, late_change >>

\* llm.invoke raises inside coordinator_node: nothing catches it
CoordinatorRaise ==
    /\ pc = "coordinator_node"
    /\ pc' = "ERROR"
    /\ UNCHANGED << saves, direct_output >>
    /\ UNCHANGED << plan, current_step_index, errors_in_state, errors, session_id,
                    task_results, last_message, pass_to_planner, decision,
                    prompt_done, node_outcome, calls, executed, initial_len,
                    first_replan_len, late_change >>

-----------------------------------------------------------------------------
(* planner *)

\* mutant: the planner dispatches the step as the oracle returned it
MarkRunning_untouched(p, k) == p

\* first_step.status = "running" / next_step.status = "running"
MarkRunning(p, k) == [ p EXCEPT ![k].status = "running" ]

\* "planning done: N steps, starting step 1: <description>, reason: <reasoning>"
PlanDoneMessage(steps, reasoning) ==
    AIMessage(<< "planning done: ", NumStr(Len(steps)), " steps; step 1: " >>
              \o steps[1].description \o << "; reason: " >> \o reasoning)

\* mutant: no "if not plan_steps" test, so plan_steps[0] raises IndexError
PlannerInitial_noEmptyCheck ==
    /\ pc = "planner"
    /\ plan = << >>
    /\ \E steps \in SeqsUpTo(OracleSteps, MaxInitialLen), reasoning \in Reasonings :
          /\ decision' = [ kind |-> "plan", steps |-> steps, reasoning |-> reasoning ]
          /\ IF steps = << >>
             THEN /\ pc' = "ERROR"
                  /\ UNCHANGED << plan, current_step_index, initial_len, last_message >>
             ELSE /\ plan' = MarkRunning(steps, 1)
                  /\ current_step_index' = 0
                  /\ initial_len' = Len(steps)
                  /\ pc' \in NextNodes("planner", steps[1].target_node)
                  /\ last_message' = PlanDoneMessage(steps, reasoning)
    /\ calls' = Bump(Bump(calls, "planner"), "plan_oracle")
    /\ UNCHANGED << saves, direct_output >>
    /\ UNCHANGED << errors_in_state, errors, session_id, task_results,
                    pass_to_planner, prompt_done, node_outcome, executed,
                    first_replan_len, late_change >>

\* First planning (not current_plan): the oracle returned PlanOutput(steps, reasoning)
PlannerInitial ==
    /\ pc = "planner"
    /\ plan = << >>
    /\ \E steps \in SeqsUpTo(OracleSteps, MaxInitialLen), reasoning \in Reasonings :
          /\ decision' = [ kind |-> "plan", steps |-> steps, reasoning |-> reasoning ]
          /\ IF steps = << >>
             THEN /\ pc' \in NextNodes("planner", "END")
                  /\ last_message' = AIMessage(reasoning)
                  /\ UNCHANGED << plan, current_step_index, initial_len >>
             ELSE /\ plan' = MarkRunning(steps, 1)
                  /\ current_step_index' = 0
                  /\ initial_len' = Len(steps)
                  /\ pc' \in NextNodes("planner", steps[1].target_node)
                  /\ last_message' = PlanDoneMessage(steps, reasoning)
    /\ calls' = Bump(Bump(calls, "planner"), "plan_oracle")
    /\ UNCHANGED << saves, direct_output >>
    /\ UNCHANGED << errors_in_state, errors, session_id, task_results,
                    pass_to_planner, prompt_done, node_outcome, executed,
                    first_replan_len, late_change >>

\* structured_llm.invoke raises during the first planning
PlannerInitialRaise ==
    /\ pc = "planner"
    /\ plan = << >>
    /\ pc' = "ERROR"
    /\ decision' = [ kind |-> "raise", steps |-> << >>, reasoning |-> EmptyText ]
    /\ calls' = Bump(Bump(calls, "planner"), "plan_oracle")
    /\ UNCHANGED << saves, direct_output >>
    /\ UNCHANGED << plan, current_step_index, errors_in_state, errors, session_id,
                    task_results, last_message, pass_to_planner, prompt_done,
                    node_outcome, executed, initial_len, first_replan_len,
                    late_change >>

\* mutant: the cursor is not advanced
NextIndex_stay(idx) == idx

NextIndex(idx) == idx + 1

\* mutant: the plan counts as exhausted while one step is left
PlanExhausted_oneLeft(p, idx) == NextIndex(idx) + 1 >= Len(p)

\* mutant: the exhaustion test is off by one (> for >=)
PlanExhausted_offByOne(p, idx) == NextIndex(idx) > Len(p)

\* next_index >= len(current_plan): no step is left
PlanExhausted(p, idx) == NextIndex(idx) >= Len(p)

\* mutant: the slice stops before the current step (current_plan[:current_step_index])
Splice_dropCurrent(p, next_index, updated_steps) ==
    IF updated_steps # << >>
    THEN SubSeq(p, 1, next_index - 1) \o updated_steps
    ELSE p

\* mutant: the old suffix is not cut off (current_plan + updated_steps)
Splice_noTruncate(p, next_index, updated_steps) ==
    IF updated_steps # << >> THEN p \o updated_steps ELSE p

\* mutant: updated_steps is inserted in front of the old suffix
Splice_insert(p, next_index, updated_steps) ==
    IF updated_steps # << >>
    THEN SubSeq(p, 1, next_index) \o updated_steps \o SubSeq(p, next_index + 1, Len(p))
    ELSE p

\* current_plan[:next_index] extended by decision.updated_steps
Splice(p, next_index, updated_steps) ==
    IF updated_steps # << >>
    THEN SubSeq(p, 1, next_index) \o updated_steps
    ELSE p

\* mutant: a cap on the replans, after one replan the plan goes to summary
PlannerToSummary_replanCap ==
    /\ pc = "planner"
    /\ plan # << >>
    /\ PlanExhausted(plan, current_step_index) \/ calls.replan_oracle >= 1
    /\ pc' \in NextNodes("planner", "summary")
    /\ last_message' = AIMessage(<< "all steps done, summarising" >>)
    /\ calls' = Bump(calls, "planner")
    /\ UNCHANGED << saves, direct_output >>
    /\ UNCHANGED << plan, current_step_index, errors_in_state, errors, session_id,
                    task_results, pass_to_planner, decision, prompt_done,
                    node_outcome, executed, initial_len, first_replan_len,
                    late_change >>

\* Rolling planning, no step left: hand over to summary without an oracle call
PlannerToSummary ==
    /\ pc = "planner"
    /\ plan # << >>
    /\ PlanExhausted(plan, current_step_index)
    /\ pc' \in NextNodes("planner", "summary")
    /\ last_message' = AIMessage(<< "all steps done, summarising" >>)
    /\ calls' = Bump(calls, "planner")
    /\ UNCHANGED << saves, direct_output >>
    /\ UNCHANGED << plan, current_step_index, errors_in_state, errors, session_id,
                    task_results, pass_to_planner, decision, prompt_done,
                    node_outcome, executed, initial_len, first_replan_len,
                    late_change >>

\* The replan prompt dumps every step of current_plan; of that dump, the steps
\* at indices <= cursor (the executed ones).
PromptDone(p, idx) == SubSeq(p, 1, NextIndex(idx))

\* the plan length a replan answer asks for: the kept steps and its own
RequestedLen(p, next_index, updated_steps) ==
    IF updated_steps # << >> THEN next_index + Len(updated_steps) ELSE Len(p)

\* "next step [k/n]: <description>"
NextStepMessage(p, next_index) ==
    AIMessage(<< "next step ", NumStr(next_index + 1), "/", NumStr(Len(p)), ": " >>
              \o p[next_index + 1].description)

\* Rolling planning: the oracle returned NextStepOutput(updated_steps, reasoning)
PlannerReplan ==
    /\ pc = "planner"
    /\ plan # << >>
    /\ ~PlanExhausted(plan, current_step_index)
    /\ LET next_index == NextIndex(current_step_index)
       IN  \E updated_steps \in SeqsUpTo(OracleSteps, MaxPlanLen - next_index),
              reasoning \in ReplanReasonings :
             LET new_plan == Splice(plan, next_index, updated_steps)
             IN  /\ prompt_done' = PromptDone(plan, current_step_index)
                 /\ decision' = [ kind |-> "replan", steps |-> updated_steps,
                                  reasoning |-> reasoning ]
                 /\ first_replan_len' = IF calls.replan_oracle = 0
                                        THEN RequestedLen(plan, next_index, updated_steps)
                                        ELSE first_replan_len
                 /\ late_change' = (late_change \/
                                      (calls.replan_oracle > 0 /\ updated_steps # << >>))
                 /\ IF next_index < 0 \/ next_index >= Len(new_plan)
                    THEN /\ pc' \in NextNodes("planner", "END")
                         /\ last_message' = AIMessage(<< "planning ended: " >> \o reasoning)
                         /\ UNCHANGED << plan, current_step_index >>
                    ELSE /\ plan' = MarkRunning(new_plan, next_index + 1)
                         /\ current_step_index' = next_index
                         /\ pc' \in NextNodes("planner", new_plan[next_index + 1].target_node)
                         /\ last_message' = NextStepMessage(new_plan, next_index)
    /\ calls' = Bump(Bump(calls, "planner"), "replan_oracle")
    /\ UNCHANGED << saves, direct_output >>
    /\ UNCHANGED << errors_in_state, errors, session_id, task_results,
                    pass_to_planner, node_outcome, executed, initial_len >>

\* mutant: the oracle's exception is caught, logged, and the next step dispatched
PlannerReplanRaise_conservative ==
    /\ pc = "planner"
    /\ plan # << >>
    /\ ~PlanExhausted(plan, current_step_index)
    /\ prompt_done' = PromptDone(plan, current_step_index)
    /\ decision' = [ kind |-> "raise", steps |-> << >>, reasoning |-> EmptyText ]
    /\ LET next_index == NextIndex(current_step_index)
       IN  /\ plan' = MarkRunning(plan, next_index + 1)
           /\ current_step_index' = next_index
           /\ pc' \in NextNodes("planner", plan[next_index + 1].target_node)
           /\ last_message' = NextStepMessage(plan, next_index)
    /\ errors' = Append(errors, << "planner oracle failed" >>)
    /\ calls' = Bump(Bump(calls, "planner"), "replan_oracle")
    /\ UNCHANGED << saves, direct_output >>
    /\ UNCHANGED << errors_in_state, session_id, task_results, pass_to_planner,
                    node_outcome, executed, initial_len, first_replan_len,
                    late_change >>

\* structured_llm.invoke raises during rolling planning: planner has no
\* try/except, so the exception leaves the node and ends graph.invoke
PlannerReplanRaise ==
    /\ pc = "planner"
    /\ plan # << >>
    /\ ~PlanExhausted(plan, current_step_index)
    /\ prompt_done' = PromptDone(plan, current_step_index)
    /\ decision' = [ kind |-> "raise", steps |-> << >>, reasoning |-> EmptyText ]
    /\ pc' = "ERROR"
    /\ calls' = Bump(Bump(calls, "planner"), "replan_oracle")
    /\ UNCHANGED << saves, direct_output >>
    /\ UNCHANGED << plan, current_step_index, errors_in_state, errors, session_id,
                    task_results, last_message, pass_to_planner, node_outcome,
                    executed, initial_len, first_replan_len, late_change >>

-----------------------------------------------------------------------------
(* execute_node_with_error_handling, as every capability node calls it with
   its own name as target_node *)

\* the plan and the table when execute_func is called: the step is running
\* and, with a session id, a "running" row has been written
PlanAtCall(node) ==
    UpdateStepStatus(plan, current_step_index, node, "running", EmptyText)

RowsAtCall(node) ==
    AuditStep(task_results, session_id, PlanAtCall(node), current_step_index,
              node, None, "running", None)

\* what add_messages leaves as the last message after appending `messages`
LastOf(messages, before) ==
    IF messages = << >> THEN before ELSE messages[Len(messages)]

\* errors = state.get("errors", []); errors.append(...); state["errors"] = errors.
\* With an "errors" list in the state the append mutates the shared list; with
\* none, the entry goes to a fresh list stored in the node's own copy of the
\* state dict, which the node does not return.
ErrorsAfterFailure(present, log, entry) ==
    IF present THEN Append(log, entry) ELSE log

\* mutant: the harness advances the cursor itself once the step completed
NodeReturns_advancesCursor ==
    /\ pc \in Catalog
    /\ \E raw_output \in NodeOutputs :
          LET node == pc
              extracted == ExtractResultFromOutput(raw_output)
              messages == extracted[1]
              result_text == extracted[2]
              done == UpdateStepStatus(PlanAtCall(node), current_step_index, node,
                                       "completed", result_text)
          IN  /\ plan' = done
              /\ task_results' = AuditStep(RowsAtCall(node), session_id, done,
                                           current_step_index, node, result_text,
                                           "completed", None)
              /\ last_message' = LastOf(messages, last_message)
              /\ node_outcome' = [ kind |-> "returned", text |-> result_text ]
              /\ pc' \in NextNodes(node, "")
    /\ current_step_index' = current_step_index + 1
    /\ calls' = Bump(Bump(calls, "harness"), "execute_func")
    /\ executed' = Append(executed, current_step_index)
    /\ UNCHANGED << saves, direct_output >>
    /\ UNCHANGED << errors_in_state, errors, session_id,
                    pass_to_planner, decision, prompt_done, initial_len,
                    first_replan_len, late_change >>

\* execute_func() returned raw_output
NodeReturns ==
    /\ pc \in Catalog
    /\ \E raw_output \in NodeOutputs :
          LET node == pc
              extracted == ExtractResultFromOutput(raw_output)
              messages == extracted[1]
              result_text == extracted[2]
              done == UpdateStepStatus(PlanAtCall(node), current_step_index, node,
                                       "completed", result_text)
          IN  /\ plan' = done
              /\ task_results' = AuditStep(RowsAtCall(node), session_id, done,
                                           current_step_index, node, result_text,
                                           "completed", None)
              /\ last_message' = LastOf(messages, last_message)
              /\ node_outcome' = [ kind |-> "returned", text |-> result_text ]
              /\ pc' \in NextNodes(node, "")
    /\ calls' = Bump(Bump(calls, "harness"), "execute_func")
    /\ executed' = Append(executed, current_step_index)
    /\ UNCHANGED << saves, direct_output >>
    /\ UNCHANGED << current_step_index, errors_in_state, errors, session_id,
                    pass_to_planner, decision, prompt_done, initial_len,
                    first_replan_len, late_change >>

\* mutant: no try/except around execute_func(), the exception leaves the node
NodeRaises_propagates ==
    /\ pc \in Catalog
    /\ \E e \in ErrorMessages :
          /\ plan' = PlanAtCall(pc)
          /\ task_results' = RowsAtCall(pc)
          /\ node_outcome' = [ kind |-> "raised", text |-> e ]
          /\ pc' = "ERROR"
    /\ calls' = Bump(Bump(calls, "harness"), "execute_func")
    /\ executed' = Append(executed, current_step_index)
    /\ UNCHANGED << saves, direct_output >>
    /\ UNCHANGED << current_step_index, errors_in_state, errors, session_id,
                    last_message, pass_to_planner, decision, prompt_done,
                    initial_len, first_replan_len, late_change >>

\* execute_func() raised an Exception whose str() is e
NodeRaises ==
    /\ pc \in Catalog
    /\ \E e \in ErrorMessages :
          LET node == pc
              error_msg == ErrorMsg(e)
              failed == UpdateStepStatus(PlanAtCall(node), current_step_index, node,
                                         "failed", error_msg)
          IN  /\ plan' = failed
              /\ task_results' = AuditStep(RowsAtCall(node), session_id, failed,
                                           current_step_index, node, error_msg,
                                           "failed", e)
              /\ errors' = ErrorsAfterFailure(errors_in_state, errors,
                                              ErrorEntry(node, e))
              /\ last_message' = AIMessage(<< node, " failed: " >> \o e)
              /\ node_outcome' = [ kind |-> "raised", text |-> e ]
              /\ pc' \in NextNodes(node, "")
    /\ calls' = Bump(Bump(calls, "harness"), "execute_func")
    /\ executed' = Append(executed, current_step_index)
    /\ UNCHANGED << saves, direct_output >>
    /\ UNCHANGED << current_step_index, errors_in_state, session_id,
                    pass_to_planner, decision, prompt_done, initial_len,
                    first_replan_len, late_change >>

-----------------------------------------------------------------------------
(* summary *)

WithStatus(p, status) == SelectSeq(p, LAMBDA step : step.status = status)

\* mutant: the footer counts every step of the plan
ReportMessage_countsPlan(p) ==
    AIMessage(<< "# report", "; based on ", NumStr(Len(p)), " tasks" >>)

\* the footer's "based on the results of N analysis tasks"
ReportMessage(p) ==
    AIMessage(<< "# report", "; based on ",
                 NumStr(Len(WithStatus(p, "completed"))), " tasks" >>)

\* mutant: with no completed step the planner's last reasoning is the answer
Summary_reasoningWhenNoneCompleted ==
    /\ pc = "summary"
    /\ last_message' = IF WithStatus(plan, "completed") = << >>
                       THEN AIMessage(decision.reasoning)
                       ELSE ReportMessage(plan)
    /\ pc' \in NextNodes("summary", "END")
    /\ calls' = Bump(calls, "summary")
    /\ UNCHANGED << saves, direct_output >>
    /\ UNCHANGED << plan, current_step_index, errors_in_state, errors, session_id,
                    task_results, pass_to_planner, decision, prompt_done,
                    node_outcome, executed, initial_len, first_replan_len,
                    late_change >>

Summary ==
    /\ pc = "summary"
    /\ last_message' = ReportMessage(plan)
    /\ pc' \in NextNodes("summary", "END")
    /\ calls' = Bump(calls, "summary")
    /\ UNCHANGED << saves, direct_output >>
    /\ UNCHANGED << plan, current_step_index, errors_in_state, errors, session_id,
                    task_results, pass_to_planner, decision, prompt_done,
                    node_outcome, executed, initial_len, first_replan_len,
                    late_change >>

\* mutant: a report of what is known is appended before the exception leaves
SummaryRaise_partialReport ==
    /\ pc = "summary"
    /\ pc' = "ERROR"
    /\ last_message' = ReportMessage(plan)
    /\ calls' = Bump(calls, "summary")
    /\ UNCHANGED << saves, direct_output >>
    /\ UNCHANGED << plan, current_step_index, errors_in_state, errors, session_id,
                    task_results, pass_to_planner, decision,
                    prompt_done, node_outcome, executed, initial_len,
                    first_replan_len, late_change >>

\* structured_llm.invoke raises inside summary
SummaryRaise ==
    /\ pc = "summary"
    /\ pc' = "ERROR"
    /\ calls' = Bump(calls, "summary")
    /\ UNCHANGED << saves, direct_output >>
    /\ UNCHANGED << plan, current_step_index, errors_in_state, errors, session_id,
                    task_results, last_message, pass_to_planner, decision,
                    prompt_done, node_outcome, executed, initial_len,
                    first_replan_len, late_change >>

-----------------------------------------------------------------------------

Next ==
    \/ Coordinator
    \/ CoordinatorRaise
    \/ PlannerInitial
    \/ PlannerInitialRaise
    \/ PlannerToSummary
    \/ PlannerReplan
    \/ PlannerReplanRaise
    \/ NodeReturns
    \/ NodeRaises
    \/ Summary
    \/ SummaryRaise

Spec == Init /\ [][Next]_vars

-----------------------------------------------------------------------------
(* The audit store on its own: save_task_result called directly, as            *)
(* the module-level session_manager lets any caller do.  No request is      *)
(* running, so the variables of the engine keep their initial values.      *)

engine_vars == << pc, plan, current_step_index, errors_in_state, errors,
                  session_id, last_message, pass_to_planner, decision,
                  prompt_done, node_outcome, calls, executed, initial_len,
                  first_replan_len, late_change, direct_output >>

EngineAtRest ==
    /\ pc = "coordinator_node"
    /\ plan = << >>
    /\ current_step_index = 0
    /\ errors_in_state = FALSE
    /\ errors = << >>
    /\ session_id = "sess1"
    /\ last_message = NoMessage
    /\ pass_to_planner = "unset"
    /\ decision = NoDecision
    /\ prompt_done = << >>
    /\ node_outcome = NoOutcome
    /\ calls = [ planner |-> 0, plan_oracle |-> 0, replan_oracle |-> 0,
                 harness |-> 0, execute_func |-> 0, summary |-> 0 ]
    /\ executed = << >>
    /\ initial_len = 0
    /\ first_replan_len = 0
    /\ late_change = FALSE

\* the most save_task_result calls one behaviour of SpecUpsert makes
MaxSaves == 2

\* result: str = None, "" or a text
SaveResults == { None, EmptyText, << "r1" >>, << "r2" >> }

\* the arguments of one call; step_description and target_node are fixed
SaveArgs == [ step_id : { "step1", "step2" }, result : SaveResults, status : Statuses ]

SaveDescription == << "d1" >>
SaveTarget == "trend_analyze"

InitUpsert ==
    /\ EngineAtRest
    /\ task_results = << >>
    /\ saves = << >>
    /\ direct_output = NotCalled

\* one whole save_task_result call: lookup, insert or update, commit
UpsertCall ==
    /\ Len(saves) < MaxSaves
    /\ \E a \in SaveArgs :
          /\ task_results' = SaveTaskResult(task_results, "sess1", a.step_id,
                                            SaveDescription, SaveTarget,
                                            a.result, a.status, None)
          /\ saves' = Append(saves, a)
    /\ UNCHANGED engine_vars

NextUpsert == UpsertCall

SpecUpsert == InitUpsert /\ [][NextUpsert]_vars

-----------------------------------------------------------------------------
(* Two save_task_result calls for one key at the same time, as two requests   *)
(* of one session make them.  Each call has its own database session          *)
(* (get_session()): the query reads the committed table, the insert or the   *)
(* update stays in the call's session (autoflush = False) and reaches the    *)
(* table at commit.  task_results has no unique constraint on                 *)
(* (session_id, step_id); the primary key is a fresh uuid per insert.         *)

Writers == { "w1", "w2" }

RaceKey == "step1"

RaceArgs == [ result : SaveResults, status : { "running", "completed", "failed" } ]

TaskResultRow(sid, step_id, step_description, target_node, result, status, error_message) ==
    [ session_id |-> sid, step_id |-> step_id, step_description |-> step_description,
      target_node |-> target_node, result |-> result, status |-> status,
      error_message |-> error_message ]

\* the record a harness run of an earlier request left for the key
EarlierRow ==
    TaskResultRow("sess1", RaceKey, SaveDescription, SaveTarget, None, "running", None)

\* existing_task is None
NoRow == TaskResultRow("", "", None, "", None, "", None)

\* The row at commit of the update branch.  The attributes are computed from
\* the row as the call loaded it; the UPDATE carries the columns whose value
\* differs from the loaded one, the others keep what the table holds.
UpdatedRow(current, loaded, a) ==
    LET result == Or(a.result, loaded.result)
    IN  [ current EXCEPT !.result = IF result = loaded.result THEN @ ELSE result,
                         !.status = IF a.status = loaded.status THEN @ ELSE a.status ]

InitRace ==
    /\ EngineAtRest
    /\ task_results \in { << >>, << EarlierRow >> }
    /\ saves \in [ Writers -> { [ pc |-> "lookup", args |-> a, existing |-> 0,
                                   loaded |-> NoRow ] : a \in RaceArgs } ]
    /\ direct_output = NotCalled

\* db_session.query(TaskResult).filter(...).first()
RaceLookup(w) ==
    /\ saves[w].pc = "lookup"
    /\ LET k == FirstMatch(task_results, "sess1", RaceKey, 1)
       IN  saves' = [ saves EXCEPT ![w] =
                        [ @ EXCEPT !.pc = "commit", !.existing = k,
                                   !.loaded = IF k = 0 THEN NoRow ELSE task_results[k] ] ]
    /\ UNCHANGED task_results
    /\ UNCHANGED engine_vars

\* the if/else on existing_task, then db_session.commit()
RaceCommit(w) ==
    /\ saves[w].pc = "commit"
    /\ LET c == saves[w]
       IN  IF c.existing # 0
           THEN task_results' =
                  [ task_results EXCEPT ![c.existing] = UpdatedRow(@, c.loaded, c.args) ]
           ELSE task_results' =
                  Append(task_results,
                         TaskResultRow("sess1", RaceKey, SaveDescription, SaveTarget,
                                       c.args.result, c.args.status, None))
    /\ saves' = [ saves EXCEPT ![w].pc = "done" ]
    /\ UNCHANGED engine_vars

NextRace == \E w \in Writers : RaceLookup(w) \/ RaceCommit(w)

SpecRace == InitRace /\ [][NextRace]_vars

-----------------------------------------------------------------------------
(* _extract_result_from_output on its own: one value of each shape the       *)
(* function tells apart is normalized.                                        *)

\* the longest message list of a raw output
MaxTurns == 2

Turns ==
    { HumanMessage(<< "q" >>), AIMessage(<< "a1" >>), AIMessage(<< "a2" >>),
      AIMessage(EmptyText) }

Dialogues == SeqsUpTo(Turns, MaxTurns)

\* a BaseModel with two fields
FieldValues == { None, EmptyText, << "v1" >> }

Structureds ==
    { [ dump |-> "ok", fields |-> << << "name", a >>, << "score", b >> >>,
        error |-> EmptyText ] : a \in FieldValues, b \in FieldValues }
      \cup { [ dump |-> "raises", fields |-> << >>, error |-> << "boom" >> ] }

RawOutputs ==
    { DictOutput(d) : d \in Dialogues }
      \cup { [ shape |-> "hybrid", messages |-> d, structured |-> st ] :
                d \in Dialogues, st \in Structureds }
      \cup { [ shape |-> "ai", content |-> c ] : c \in { EmptyText, << "a1" >> } }
      \cup { [ shape |-> "model", structured |-> st ] : st \in Structureds }
      \cup { [ shape |-> "none" ] }
      \cup { [ shape |-> "str", text |-> t ] : t \in { EmptyText, << "plain text" >> } }

InitNormalize ==
    /\ EngineAtRest
    /\ task_results = << >>
    /\ saves = << >>
    /\ direct_output \in RawOutputs

\* messages, result_text = _extract_result_from_output(raw_output)
NormalizeOutput ==
    /\ node_outcome = NoOutcome
    /\ LET extracted == ExtractResultFromOutput(direct_output)
       IN  /\ node_outcome' = [ kind |-> "returned", text |-> extracted[2] ]
           /\ last_message' = LastOf(extracted[1], last_message)
    /\ UNCHANGED << pc, plan, current_step_index, errors_in_state, errors,
                    session_id, task_results, pass_to_planner, decision,
                    prompt_done, calls, executed, initial_len, first_replan_len,
                    late_change, saves, direct_output >>

NextNormalize == NormalizeOutput

SpecNormalize == InitNormalize /\ [][NextNormalize]_vars

-----------------------------------------------------------------------------
(* The engine with an oracle that never empties the suffix: every replan     *)
(* answer leaves at least one step behind the step it dispatches, and no     *)
(* oracle call raises.  The plan of the model is at most MaxPlanLen long, so *)
(* a behaviour stops where the next such answer would need a longer plan.    *)

\* the plan holds a step behind the one at the cursor
StepLeftAfterCursor(p, idx) == Len(p) > idx + 1

PlannerReplanKeepsSuffix ==
    /\ PlannerReplan
    /\ StepLeftAfterCursor(plan', current_step_index')

NextLoop ==
    \/ Coordinator
    \/ PlannerInitial
    \/ PlannerToSummary
    \/ PlannerReplanKeepsSuffix
    \/ NodeReturns
    \/ NodeRaises
    \/ Summary

SpecLoop == Init /\ [][NextLoop]_vars

-----------------------------------------------------------------------------
(* Properties.  The steps of a behaviour are told apart by the counters:     *)
(* each handler bumps its own.                                               *)

\* this step is a planner hop whose replan oracle call returned
ReplanReturned ==
    /\ calls'.replan_oracle = calls.replan_oracle + 1
    /\ decision'.kind = "replan"

\* this step is a planner hop whose replan oracle call raised
ReplanRaised ==
    /\ calls'.replan_oracle = calls.replan_oracle + 1
    /\ decision'.kind = "raise"

\* this step is a planner hop whose first-planning oracle call returned
PlanReturned ==
    /\ calls'.plan_oracle = calls.plan_oracle + 1
    /\ decision'.kind = "plan"

\* this step is one harness run
HarnessRan == calls'.harness = calls.harness + 1

Max(a, b) == IF a >= b THEN a ELSE b

\* C1: after a rolling replan, whatever updated_steps was, every step at an
\* index <= cursor (the cursor on entry) is the same step, with every field
\* unchanged, at the same index.
C1_PastUnchanged ==
    [][ ReplanReturned =>
          \A k \in 1..(current_step_index + 1) :
             k <= Len(plan') /\ plan'[k] = plan[k] ]_vars

\* a replan that returned updated_steps has been spliced behind an executed
\* prefix of two steps
C1_Witness ==
    /\ decision.kind = "replan"
    /\ decision.steps # << >>
    /\ current_step_index = 2
    /\ pc \in Catalog

\* the status the step object now at position k had before this step: the one
\* the oracle emitted when the planner has just taken the object from the
\* oracle's output, the one it had in the plan otherwise
StatusBefore(k) ==
    IF PlanReturned
    THEN decision'.steps[k].status
    ELSE IF ReplanReturned /\ decision'.steps # << >> /\ k > current_step_index + 1
    THEN decision'.steps[k - (current_step_index + 1)].status
    ELSE plan[k].status

\* one move along pending, running, (completed | failed), or none
Forward(a, b) ==
    \/ a = b
    \/ a = "pending" /\ b = "running"
    \/ a = "running" /\ b \in Terminal

\* C2: the statuses observed of any step over a run, steps taken from the
\* oracle's output included, only move forward along pending, running,
\* (completed | failed); a status never regresses.
C2_StatusMonotonic ==
    [][ \A k \in 1..Len(plan') : Forward(StatusBefore(k), plan'[k].status) ]_vars

C4_BoundedByInitialPlan ==
    ~late_change => calls.harness <= initial_len

\* C4, amended: with no updated_steps from the second replan onward, the run
\* executes at most as many steps as the first replan's answer asks for
\* (cursor + 1 + len(updated_steps), or len(initial_plan) if it returned
\* none), and it stops only at END or with an exception.
C4_BoundedByFirstReplan ==
    ~late_change =>
        /\ calls.harness <= Max(initial_len, first_replan_len)
        /\ pc \in { "END", "ERROR" } \/ ENABLED Next

\* a run whose first replan grew the plan and whose later replans returned
\* nothing has ended, after more executions than the initial plan had steps
C4_Witness ==
    /\ pc = "END"
    /\ ~late_change
    /\ calls.replan_oracle >= 2
    /\ calls.summary = 1
    /\ calls.harness > initial_len

\* C5: when the capability function raises with message m, the step at the
\* cursor is failed, its result is the 'execution failed' prefix followed by m,
\* and exactly one entry for the failure has been appended to the errors list
\* of the state, where the rest of the run sees it.
C5_FailureLogged ==
    [][ (HarnessRan /\ node_outcome'.kind = "raised") =>
          LET k == current_step_index + 1
              m == node_outcome'.text
          IN  /\ plan'[k].status = "failed"
              /\ plan'[k].result = ExecFailedPrefix \o m
              /\ errors_in_state'
              /\ errors' = Append(errors, ErrorEntry(pc, m)) ]_vars

\* C6: an exception of the capability function does not leave the harness:
\* the planner runs next, and when steps remain its replan oracle is called
\* with a prompt that shows the failed step as failed, with the failure text.
C6_FailureReachesReplan ==
    [][ /\ (HarnessRan /\ node_outcome'.kind = "raised") => pc' = "planner"
        /\ ( /\ pc = "planner"
             /\ node_outcome.kind = "raised"
             /\ current_step_index + 1 < Len(plan) ) =>
               LET k == current_step_index + 1
               IN  /\ calls'.replan_oracle = calls.replan_oracle + 1
                   /\ Len(prompt_done') = k
                   /\ prompt_done'[k].status = "failed"
                   /\ prompt_done'[k].result = ExecFailedPrefix \o node_outcome.text
      ]_vars

\* the replan oracle has answered a prompt whose last executed step is failed
C6_Witness ==
    /\ decision.kind = "replan"
    /\ node_outcome.kind = "raised"
    /\ prompt_done # << >>
    /\ prompt_done[Len(prompt_done)].status = "failed"
    /\ pc \in Catalog

\* C7: when the capability function returns, the step at the cursor is
\* completed and its result is the normalized text of the returned value,
\* the empty text included, whatever result the step carried before.
C7_ResultIsNormalizedText ==
    (pc = "planner" /\ node_outcome.kind = "returned") =>
        /\ plan[current_step_index + 1].status = "completed"
        /\ plan[current_step_index + 1].result = node_outcome.text

\* C8 as stated: when the replan oracle call raises the run is not aborted,
\* the plan is unchanged, the cursor advances to the next step, which is
\* dispatched, and the error is in the errors list.
C8_ReplanFailureAbsorbed ==
    [][ ReplanRaised =>
          /\ pc' # "ERROR"
          /\ current_step_index' = current_step_index + 1
          /\ Len(plan') = Len(plan)
          /\ Len(errors') = Len(errors) + 1 ]_vars

\* C8, amended: when the replan oracle call raises, the exception leaves the
\* planner and ends the run: plan, cursor, errors list and messages are
\* unchanged, and no node runs afterwards.
C8_ReplanFailureAborts ==
    [][ /\ ReplanRaised =>
             /\ pc' = "ERROR"
             /\ plan' = plan
             /\ current_step_index' = current_step_index
             /\ errors' = errors
             /\ last_message' = last_message
             /\ calls'.harness = calls.harness
        /\ pc = "ERROR" => pc' = "ERROR" ]_vars

\* the replan oracle raised with a step still waiting behind the cursor
C8_Witness ==
    /\ decision.kind = "raise"
    /\ calls.replan_oracle >= 1
    /\ current_step_index + 1 < Len(plan)
    /\ plan[current_step_index + 2].status = "pending"

\* C9: when the first planning returns no steps with reasoning r, the run
\* ends at once with r as its last message: no plan is stored, the harness
\* never runs, and neither the replan oracle nor summary is called.
C9_EmptyPlanEndsRun ==
    (decision.kind = "plan" /\ decision.steps = << >>) =>
        /\ pc = "END"
        /\ last_message = AIMessage(decision.reasoning)
        /\ plan = << >>
        /\ calls.harness = 0
        /\ calls.replan_oracle = 0
        /\ calls.summary = 0

\* the first planning returned no steps
C9_Witness ==
    /\ decision.kind = "plan"
    /\ decision.steps = << >>
    /\ decision.reasoning = << "out of scope" >>
    /\ last_message.content = << "out of scope" >>

-----------------------------------------------------------------------------
(* Claims about the audit store *)

\* the positions of the records stored under (sid, step_id)
RowsOf(rows, sid, step_id) ==
    { k \in 1..Len(rows) : rows[k].session_id = sid /\ rows[k].step_id = step_id }

\* this step is a save_task_result call for a key that already has a record
SecondSave ==
    /\ Len(saves') = Len(saves) + 1
    /\ RowsOf(task_results, "sess1", saves'[Len(saves')].step_id) # {}

\* C11 as stated: a second save_task_result call for a key leaves exactly one
\* record for the key, whose status and result are those of the second call,
\* whatever they are (an empty or absent result included).
C11_SecondCallWins ==
    [][ SecondSave =>
          LET a == saves'[Len(saves')]
              ks == RowsOf(task_results', "sess1", a.step_id)
          IN  /\ Cardinality(ks) = 1
              /\ \A k \in ks : /\ task_results'[k].status = a.status
                                /\ task_results'[k].result = a.result ]_vars

\* C11 amended: a second save_task_result call for a key leaves exactly one
\* record for the key; its status is that of the second call, and its result
\* is that of the second call when that is a non-empty text and the result
\* the record already had when the second call passes "" or None.
C11_SecondCallMerges ==
    [][ SecondSave =>
          LET a == saves'[Len(saves')]
              before == RowsOf(task_results, "sess1", a.step_id)
              ks == RowsOf(task_results', "sess1", a.step_id)
          IN  /\ Cardinality(ks) = 1
              /\ ks = before
              /\ \A k \in ks :
                    /\ task_results'[k].status = a.status
                    /\ task_results'[k].result =
                          IF a.result \in { None, EmptyText }
                          THEN task_results[k].result
                          ELSE a.result ]_vars

\* two calls for one key were made, the first with a text, the second with a
\* different status and no result: one record, new status, old text
C11_Witness ==
    /\ Len(saves) = 2
    /\ saves[1].step_id = saves[2].step_id
    /\ saves[1].result = << "r1" >> /\ saves[1].status = "completed"
    /\ saves[2].result = None /\ saves[2].status = "running"
    /\ Len(task_results) = 1
    /\ task_results[1].status = "running"
    /\ task_results[1].result = << "r1" >>

\* C12: when two save_task_result calls for one key have both finished,
\* however their lookups and commits interleaved, the table holds exactly one
\* record for the key.
C12_OneRecordAfterRace ==
    (\A w \in Writers : saves[w].pc = "done") =>
        Cardinality(RowsOf(task_results, "sess1", RaceKey)) = 1

\* a nullable Text column read back: NULL is no text
TextOf(x) == IF x = None THEN EmptyText ELSE x

\* C13: in a harness run with a session id, the table holds a "running"
\* record for (session_id, step.id) when the capability function is called,
\* and when the harness has finished the step the record for that key
\* carries the step's target, description, result and status.
C13_AuditMirrorsStep ==
    [][ (HarnessRan /\ session_id # "") =>
          LET step == plan'[current_step_index + 1]
              at_call == RowsAtCall(pc)
              after == RowsOf(task_results', session_id, step.id)
          IN  /\ \E k \in RowsOf(at_call, session_id, step.id) :
                    at_call[k].status = "running"
              /\ after # {}
              /\ \A k \in after :
                    /\ task_results'[k].target_node = step.target_node
                    /\ task_results'[k].step_description = step.description
                    /\ TextOf(task_results'[k].result) = step.result
                    /\ task_results'[k].status = step.status ]_vars

-----------------------------------------------------------------------------
(* Claims about one harness run and the cursor *)

\* C14: a harness run calls the capability function exactly once, brings the
\* step at the cursor to a terminal status changing nothing of it but status
\* and result, leaves every other step as it was, and changes neither the
\* cursor nor the length of the plan.
C14_OneStepPerRun ==
    [][ HarnessRan =>
          LET c == current_step_index + 1
          IN  /\ calls'.execute_func = calls.execute_func + 1
              /\ current_step_index' = current_step_index
              /\ Len(plan') = Len(plan)
              /\ c \in 1..Len(plan)
              /\ plan'[c].status \in Terminal
              /\ [ plan'[c] EXCEPT !.status = plan[c].status,
                                   !.result = plan[c].result ] = plan[c]
              /\ \A k \in 1..Len(plan) : k # c => plan'[k] = plan[k] ]_vars

\* the first harness run of a plan of several steps has finished: the step at
\* the cursor is terminal, a later step of the same node is still pending
C14_Witness ==
    /\ calls.harness = 1
    /\ pc = "planner"
    /\ current_step_index = 0
    /\ Len(plan) >= 2
    /\ plan[1].status \in Terminal
    /\ plan[2].status = "pending"
    /\ plan[2].target_node = plan[1].target_node

\* this step is the summary node running
SummaryRan == calls'.summary = calls.summary + 1

\* this step is a planner hop that dispatched the step at index i
Dispatched(i) ==
    /\ calls'.planner = calls.planner + 1
    /\ i < Len(plan')
    /\ last_message' \in { PlanDoneMessage(plan', decision'.reasoning),
                            NextStepMessage(plan', i) }

\* C15: the cursor never decreases: the first planning that dispatches sets it
\* to 0, a replan hop that dispatches raises it by exactly 1, and a harness
\* run or the summary leaves it as it is.
C15_CursorNeverDecreases ==
    [][ /\ current_step_index' >= current_step_index
        /\ (PlanReturned /\ decision'.steps # << >>) =>
               (current_step_index' = 0 /\ Dispatched(0))
        /\ ReplanReturned =>
               (current_step_index' = current_step_index + 1
                  /\ Dispatched(current_step_index + 1))
        /\ (HarnessRan \/ SummaryRan) =>
               current_step_index' = current_step_index ]_vars

\* the cursor has gone 0, 1, 2 and the summary has run
C15_Witness ==
    /\ executed = << 0, 1, 2 >>
    /\ current_step_index = 2
    /\ calls.summary = 1
    /\ calls.replan_oracle = 2

-----------------------------------------------------------------------------
(* Claims about the steps of the plan *)

\* C16: every step of the plan has a target_node of the five-node catalog.
C16_TargetsInCatalog ==
    \A k \in 1..Len(plan) : plan[k].target_node \in Catalog

\* C17: the ids of the steps of the plan are pairwise distinct.
C17_IdsDistinct ==
    \A i, j \in 1..Len(plan) : plan[i].id = plan[j].id => i = j

-----------------------------------------------------------------------------
(* Claims about the end of the run *)

\* at least one step was executed and every executed step failed
AllExecutedFailed ==
    /\ executed # << >>
    /\ \A i \in 1..Len(executed) : plan[executed[i] + 1].status = "failed"

\* the messages that carry a reasoning text of the planner's oracle
ReasoningMessages ==
    { AIMessage(r) : r \in Reasonings \cup ReplanReasonings }
      \cup { AIMessage(<< "planning ended: " >> \o r) : r \in Reasonings \cup ReplanReasonings }

\* C18 as stated: a run that ends with every executed step failed shows the
\* planner's reasoning text as its final message (stated for the plans whose
\* targets are all nodes of the graph).
C18_ReasoningWhenAllFailed ==
    (pc = "END" /\ AllExecutedFailed /\ C16_TargetsInCatalog) =>
        last_message \in ReasoningMessages

\* C18 amended: a run that ends with every executed step failed never shows
\* the planner's reasoning text; when it ends through the summary node its
\* final message is the report, whose footer counts 0 tasks.
C18_ReportWhenAllFailed ==
    (pc = "END" /\ AllExecutedFailed) =>
        /\ last_message \notin ReasoningMessages
        /\ calls.summary = 1 =>
              last_message = AIMessage(<< "# report", "; based on ", "0", " tasks" >>)

\* two steps ran, both failed, and the summary node has ended the run
C18_Witness ==
    /\ pc = "END"
    /\ calls.summary = 1
    /\ executed = << 0, 1 >>
    /\ AllExecutedFailed
    /\ last_message.content[1] = "# report"

\* the oracle call of the first planning raised
InitialPlanningRaised ==
    calls.plan_oracle = 1 /\ calls.replan_oracle = 0 /\ decision.kind = "raise"

\* the summary node was entered and did not return
SummaryRaised == calls.summary = 1 /\ pc = "ERROR"

\* C19: an oracle failure at either end is terminal.  When the first planning's
\* oracle call raised, the run has ended with an error, no step was executed
\* and no node runs any more; when the summary's oracle call raised, the run
\* has ended with an error and no report message was produced.
C19_OracleFailureTerminal ==
    /\ InitialPlanningRaised =>
          (pc = "ERROR" /\ calls.harness = 0 /\ executed = << >> /\ plan = << >>)
    /\ SummaryRaised =>
          (last_message = AIMessage(<< "all steps done, summarising" >>)
             /\ last_message.content[1] # "# report")
    /\ pc = "ERROR" => ~ENABLED Next

\* the summary's oracle call raised after two executed steps
C19_Witness ==
    /\ SummaryRaised
    /\ executed = << 0, 1 >>
    /\ calls.plan_oracle = 1 /\ decision.kind = "replan"

\* the summary node has rendered its report and ended the run
ReportRendered == pc = "END" /\ calls.summary = 1

\* the number the footer of the report states
FooterNumber == last_message.content[3]

\* how many steps of the plan have the status
CountWithStatus(status) ==
    Cardinality({ k \in 1..Len(plan) : plan[k].status = status })

-----------------------------------------------------------------------------
(* Claims about the replan loop *)

\* the plan of the model has no room for another answer that keeps a suffix
ModelBoundReached == pc = "planner" /\ current_step_index + 3 > MaxPlanLen

AsDispatched(step) == [ step EXCEPT !.status = "running" ]

-----------------------------------------------------------------------------
(* Claims about the normalization *)

\* the value has been normalized
Normalized == node_outcome.kind = "returned"

\* the positions of the assistant-authored turns
AssistantTurns(messages) ==
    { k \in 1..Len(messages) : messages[k].type = "ai" }

\* the positions of the assistant-authored turns that have a text
SpokenTurns(messages) ==
    { k \in AssistantTurns(messages) : messages[k].content # EmptyText }

Last(S) == CHOOSE k \in S : \A j \in S : j <= k

\* 'field: value'
Rendered(field) == << field[1], ": " >> \o field[2]

\* every field rendered, joined by ' | ' (records of two fields)
AllFieldsRendered(fields) ==
    Rendered(fields[1]) \o << " | " >> \o Rendered(fields[2])

\* the fields that have a value rendered, joined by ' | ' (records of two fields)
KeptFieldsRendered(fields) ==
    LET kept == SelectSeq(fields, LAMBDA f : f[2] # None /\ f[2] # EmptyText)
    IN  CASE Len(kept) = 0 -> EmptyText
          [] Len(kept) = 1 -> Rendered(kept[1])
          [] OTHER -> Rendered(kept[1]) \o << " | " >> \o Rendered(kept[2])

\* the result text of a message list, told by position
DialogueText(messages) ==
    IF SpokenTurns(messages) # {}
    THEN messages[Last(SpokenTurns(messages))].content
    ELSE IF messages = << >> THEN EmptyText
         ELSE << "generated ", NumStr(Len(messages)), " messages" >>

-----------------------------------------------------------------------------
(* Claims about the statuses of the steps *)

\* a capability node is about to run: the harness is entered next
HarnessEntry == pc \in Catalog

\* C24 as stated: on entry to the harness the step at the cursor is pending.
C24_PendingOnEntry ==
    HarnessEntry => plan[current_step_index + 1].status = "pending"

\* C24 amended: on entry to the harness the step at the cursor is running,
\* the planner having marked it when it dispatched it.
C24_RunningOnEntry ==
    HarnessEntry =>
        /\ current_step_index < Len(plan)
        /\ plan[current_step_index + 1].status = "running"
        /\ plan[current_step_index + 1].target_node = pc

\* the harness is entered for the second step, which a replan returned with
\* status completed and the planner set to running
C24_Witness ==
    /\ HarnessEntry
    /\ current_step_index = 1
    /\ decision.kind = "replan"
    /\ Len(decision.steps) >= 1
    /\ decision.steps[1].status = "completed"
    /\ plan[2].status = "running"

\* the summary node is about to run
SummaryEntry == pc = "summary"

-----------------------------------------------------------------------------
(* Claims about the ways a run ends *)

\* the planner's early-halt message ("planning ended: <reasoning>")
EarlyHaltMessages ==
    { AIMessage(<< "planning ended: " >> \o r) : r \in Reasonings \cup ReplanReasonings }

\* the early-halt exit of the rolling-replan branch is never taken, and a
\* replan leaves at least the step it dispatches
EarlyHaltNeverTaken ==
    /\ last_message \notin EarlyHaltMessages
    /\ decision.kind = "replan" => current_step_index < Len(plan)

\* C26: the early-halt exit of the rolling-replan branch is never taken and a
\* replan never removes all remaining steps, so a run that has a plan and
\* whose oracle calls all returned ends only through the summary node.
C26_EndsOnlyThroughSummary ==
    /\ EarlyHaltNeverTaken
    /\ (pc = "END" /\ plan # << >>) => calls.summary = 1

\* the positions of the plan whose step is running
RunningSteps == { k \in 1..Len(plan) : plan[k].status = "running" }

\* C27: at most one step of the plan is running, and it is the step at the
\* cursor; every step below the cursor is completed or failed.
C27_OneRunningAtCursor ==
    /\ RunningSteps \subseteq { current_step_index + 1 }
    /\ \A k \in 1..Len(plan) : k <= current_step_index => plan[k].status \in Terminal

-----------------------------------------------------------------------------
(* Claims about the audit records and the error log over a run *)

\* C28: once the audit record of a (session_id, step_id) is completed or
\* failed, no later step of the run writes "running" to it (neither when the
\* capability function is called nor at the end) or changes its result or
\* error_message; and a completed record carries no error_message.
C28_TerminalRecordFinal ==
    [][ /\ \A k \in 1..Len(task_results) :
              task_results[k].status \in Terminal =>
                /\ HarnessRan => RowsAtCall(pc)[k].status # "running"
                /\ task_results'[k].status # "running"
                /\ task_results'[k].result = task_results[k].result
                /\ task_results'[k].error_message = task_results[k].error_message
        /\ \A k \in 1..Len(task_results') :
              task_results'[k].status = "completed" =>
                Falsy(task_results'[k].error_message) ]_vars

\* this step is one run of planner
PlannerRan == calls'.planner = calls.planner + 1

\* the steps at indices <= idx of p that are failed
FailedUpTo(p, idx) == { k \in 1..Len(p) : k <= idx + 1 /\ p[k].status = "failed" }

\* C29: the error log of the state only grows and tracks the failures: a
\* harness run whose capability function raises appends exactly one entry,
\* one that returns appends none, planner leaves the log as it is, and
\* whenever planner is entered the log has as many entries as there are
\* failed steps at indices <= cursor.
C29_ErrorLogTracksFailures ==
    [][ /\ (HarnessRan /\ node_outcome'.kind = "raised") =>
              /\ Len(errors') = Len(errors) + 1
              /\ SubSeq(errors', 1, Len(errors)) = errors
        /\ (HarnessRan /\ node_outcome'.kind = "returned") => errors' = errors
        /\ PlannerRan => errors' = errors
        /\ pc' = "planner" =>
              Len(errors') = Cardinality(FailedUpTo(plan', current_step_index')) ]_vars

-----------------------------------------------------------------------------
(* Claims about the coordinator's decision *)

\* coordinator_node has returned (a message is in the state) and its oracle
\* answered pass_to_planner = false
CoordinatorDeclined == last_message # NoMessage /\ pass_to_planner = FALSE

\* C30: when the coordinator decided pass_to_planner = false, planner is
\* never invoked, no plan is created, no step is executed, and the run, once
\* over, has ended normally with the coordinator's answer as last message.
C30_DeclineEndsRun ==
    CoordinatorDeclined =>
        /\ calls.planner = 0
        /\ plan = << >>
        /\ calls.harness = 0
        /\ pc \in { "END", "ERROR" } =>
              /\ pc = "END"
              /\ last_message = AIMessage(<< "coordinator answer" >>)

=============================================================================
